---- MODULE Spec2Model ----
(***************************************************************************)
(* The handler wrappers of src/client/event_handlers.rs (EventHandler,     *)
(* RawEventHandler, MessageHandler, InlineQueryHandler,                    *)
(* InlineResultHandler) as a state machine.                                *)
(*                                                                         *)
(* Each wrapper is  struct { inner: Arc<Mutex<Func>> }.  call(&self,c,u)   *)
(* clones the Arc and returns a boxed future of                            *)
(*     let func = h.inner.lock().await;   -- a tokio MutexGuard            *)
(*     let fut  = (func)(c, u);                                            *)
(*     fut.await;                                                          *)
(* `func` is the guard itself; it is dropped when the async block ends     *)
(* (normally, by unwinding, or when the future is dropped).                *)
(* tokio::sync::Mutex is a FIFO-fair semaphore of one permit: a released   *)
(* permit is handed to the first queued waiter.                            *)
(*                                                                         *)
(* Spec is the wrappers alone.  SpecReplace adds replacement of the held   *)
(* function and SpecDispatch the dispatcher (registration, classification  *)
(* of an update by its populated fields): neither has code in these        *)
(* sources, both follow the specification's sections 3, 4.2 and 5.         *)
(* FairSpec is Spec with every future polled and every callback returning. *)
(* SpecLife adds the drop of a handler object and of a returned future,    *)
(* SpecReentrant callbacks that call and await a handler themselves;       *)
(* OtherSpec and FairSpecLife are Spec and SpecLife under fair polling.    *)
(***************************************************************************)
EXTENDS Integers, Sequences, FiniteSets, TLC

\* ------------------------------------------------------------- bounds
MaxHandlers == 2    \* handler objects (and Arc allocations) ever constructed
MaxTasks == 3       \* futures ever returned by call()
MaxValue == 1       \* distinct payload values of one payload type
MaxPopulated == 2   \* populated fields of one dispatched update

\* --------------------------------------------------------- vocabulary
Kinds == {"EventHandler", "RawEventHandler", "MessageHandler",
          "InlineQueryHandler", "InlineResultHandler"}

\* (mutant) the inline-query and chosen-inline-result wrappers take each
\* other's payload type
PayloadTypeSwapped(kind) ==
    CASE kind = "EventHandler" -> "Update"
      [] kind = "RawEventHandler" -> "RawUpdate"
      [] kind = "MessageHandler" -> "Message"
      [] kind = "InlineQueryHandler" -> "ChosenInlineResult"
      [] kind = "InlineResultHandler" -> "InlineQuery"

\* The payload type of each wrapper's call(c, u)
PayloadType(kind) ==
    CASE kind = "EventHandler" -> "Update"
      [] kind = "RawEventHandler" -> "RawUpdate"
      [] kind = "MessageHandler" -> "Message"
      [] kind = "InlineQueryHandler" -> "InlineQuery"
      [] kind = "InlineResultHandler" -> "ChosenInlineResult"

\* User callbacks (fn pointers) a handler can be constructed with
Funcs == {"F", "G"}
\* Context values the driver supplies
Contexts == {"ctx1", "ctx2"}
Values == 1..MaxValue
\* The values of a wrapper's payload type (v = 0: one built from an absent field)
Payloads(kind) == [type : {PayloadType(kind)}, v : 0..MaxValue]

\* The wrappers whose payload is one field of an update
TypedKinds == {"MessageHandler", "InlineQueryHandler", "InlineResultHandler"}

\* (mutant) inline_query is checked before the message fields
FieldsInlineFirst ==
    <<"inline_query", "message", "edited_message", "channel_post",
      "edited_channel_post", "chosen_inline_result", "callback_query",
      "shipping_query", "pre_checkout_query", "poll", "poll_answer">>

\* RawUpdate's optional fields, in declaration order
Fields == <<"message", "edited_message", "channel_post", "edited_channel_post",
            "inline_query", "chosen_inline_result", "callback_query",
            "shipping_query", "pre_checkout_query", "poll", "poll_answer">>
FieldNames == { Fields[n] : n \in 1..Len(Fields) }
NoDispatch == [update |-> <<>>, field |-> "none", task |-> 0]

HandlerIds == 1..MaxHandlers
TaskIds == 1..MaxTasks

NoSlot == [kind |-> "none", func |-> "none"]
NoTask == [pc |-> "none", op |-> "none", via |-> 0, h |-> 0, c |-> "none",
           u |-> [type |-> "none", v |-> 0], f |-> "none",
           calls |-> <<>>, outcome |-> "none", awaits |-> 0]
\* A handler object that was dropped
Dropped == -1

VARIABLES
    handlers,   \* handler object -> the Arc (slot) its `inner` points to, 0: not constructed,
                \* Dropped: dropped
    inner,      \* Arc<Mutex<Func>> allocation -> [kind, func]: the value the mutex guards
    holder,     \* slot -> the task holding (or granted) the mutex permit, 0: free
    waiters,    \* slot -> FIFO queue of tasks queued in lock().await
    tasks,      \* future returned by call() -> its state
    registry,   \* dispatcher: handler kind -> the handler object registered for it, 0: none
    dispatched  \* dispatcher: the update classified by the last step and what it invoked

vars == <<handlers, inner, holder, waiters, tasks, registry, dispatched>>
\* The dispatcher's own state, which no operation of a handler touches
dvars == <<registry, dispatched>>

\* Position of a future:
\*   "pending"  returned by call(), never polled
\*   "waiting"  polled, queued in h.inner.lock().await
\*   "granted"  the permit was handed to it, it was not polled since
\*   "running"  holds the guard `func`, called (func)(c, u), inside fut.await
\*   "done"     the async block returned ()
\*   "failed"   the callback panicked; the panic unwound through the block
\*   "cancelled" the future was dropped before it finished
\* via: the handler object call() was called on; h: the future's own clone
\* of the Arc; awaits: the future the callback is awaiting, 0 for none
Live == {"pending", "waiting", "granted", "running"}
Finished == {"done", "failed"}
Ended == Finished \cup {"cancelled"}

Init ==
    /\ handlers = [i \in HandlerIds |-> 0]
    /\ inner = [s \in HandlerIds |-> NoSlot]
    /\ holder = [s \in HandlerIds |-> 0]
    /\ waiters = [s \in HandlerIds |-> <<>>]
    /\ tasks = [t \in TaskIds |-> NoTask]
    /\ registry = [k \in TypedKinds |-> 0]
    /\ dispatched = NoDispatch

\* ------------------------------------------------------------ helpers
FreeHandler == CHOOSE i \in HandlerIds : handlers[i] = 0 /\ \A j \in 1..(i-1) : handlers[j] # 0
\* (mutant) every constructor uses the same allocation
FreeSlotShared == CHOOSE s \in HandlerIds : \A j \in HandlerIds : s <= j

FreeSlot == CHOOSE s \in HandlerIds : inner[s] = NoSlot /\ \A j \in 1..(s-1) : inner[j] # NoSlot
FreeTask == CHOOSE t \in TaskIds : tasks[t].pc = "none" /\ \A j \in 1..(t-1) : tasks[j].pc # "none"

\* ------------------------------------------------- construction, clone
\* (mutant) the constructor stores a fixed function, not the one it was given
NewInnerDefault(kind, handler) == [kind |-> kind, func |-> "F"]

\* Arc::new(Mutex::new(handler)): the value a fresh mutex guards
NewInner(kind, handler) == [kind |-> kind, func |-> handler]

\* <Kind>Handler::new(handler) (and From<Func>, which calls new): a fresh Arc
\* holding an unlocked mutex with no waiters around `handler`
new(kind, handler) ==
    /\ { i \in HandlerIds : handlers[i] = 0 } # {}
    /\ { s \in HandlerIds : inner[s] = NoSlot } # {}
    /\ handlers' = [handlers EXCEPT ![FreeHandler] = FreeSlot]
    /\ inner' = [inner EXCEPT ![FreeSlot] = NewInner(kind, handler)]
    /\ holder' = [holder EXCEPT ![FreeSlot] = 0]
    /\ waiters' = [waiters EXCEPT ![FreeSlot] = <<>>]
    /\ UNCHANGED <<tasks, dvars>>

\* #[derive(Clone)]: a second handler object whose `inner` is the same Arc
clone(i) ==
    /\ handlers[i] \in HandlerIds
    /\ { j \in HandlerIds : handlers[j] = 0 } # {}
    /\ handlers' = [handlers EXCEPT ![FreeHandler] = handlers[i]]
    /\ UNCHANGED <<inner, holder, waiters, tasks, dvars>>

\* ---------------------------------------------------------------- call
\* (mutant) call() reads the function and calls it before returning the future
NewFutureEager(i, c, u) ==
    [pc |-> "pending", op |-> "call", via |-> i, h |-> handlers[i], c |-> c,
     u |-> u, f |-> "none",
     calls |-> <<[func |-> inner[handlers[i]].func, c |-> c, u |-> u]>>,
     outcome |-> "none", awaits |-> 0]

\* (mutant) the clone taken inside call() is a copy with an allocation of its own
NewFutureDeepClone(i, c, u) ==
    [pc |-> "pending", op |-> "call", via |-> i,
     h |-> CHOOSE s \in HandlerIds : s # handlers[i], c |-> c,
     u |-> u, f |-> "none", calls |-> <<>>, outcome |-> "none", awaits |-> 0]

\* call(&self, c, u): let h = self.clone(); Box::pin(async move { ... }).
\* The future captures h, c and u; nothing of the block has run yet.
NewFuture(i, c, u) ==
    [pc |-> "pending", op |-> "call", via |-> i, h |-> handlers[i], c |-> c,
     u |-> u, f |-> "none", calls |-> <<>>, outcome |-> "none", awaits |-> 0]

call(i, c, u) ==
    /\ handlers[i] \in HandlerIds
    /\ u \in Payloads(inner[handlers[i]].kind)
    /\ { t \in TaskIds : tasks[t].pc = "none" } # {}
    /\ tasks' = [tasks EXCEPT ![FreeTask] = NewFuture(i, c, u)]
    /\ UNCHANGED <<handlers, inner, holder, waiters>>

\* A driver calls handler i directly
Call(i, c, u) == call(i, c, u) /\ UNCHANGED dvars

\* ------------------------------------------------------- the async block
\* (mutant) the block calls a function it cached instead of the guarded one
LockedFuncStale(s) == "F"

\* (mutant) the block calls a function other than the guarded one
LockedFuncOther(s) == CHOOSE g \in Funcs : g # inner[s].func

\* *func: what the guard dereferences to, the function the mutex guards now
LockedFunc(s) == inner[s].func

\* let fut = (func)(c, u): one invocation of the guarded function with the
\* context and payload the future captured
Invocation(t) ==
    [func |-> LockedFunc(tasks[t].h), c |-> tasks[t].c, u |-> tasks[t].u]

\* (mutant) the block calls the function a second time
InvokedTwice(t) ==
    [tasks[t] EXCEPT !.pc = "running",
                     !.calls = Append(Append(@, Invocation(t)), Invocation(t))]

\* (mutant) the raw-event wrapper does not await the callback's future
InvokedRawNotAwaited(t) ==
    [tasks[t] EXCEPT !.pc = IF inner[tasks[t].h].kind = "RawEventHandler"
                            THEN "done" ELSE "running",
                     !.calls = Append(@, Invocation(t))]

\* The future's state once lock().await has returned the guard: the callback
\* is called and the block is inside fut.await, `func` (the guard) still alive
Invoked(t) ==
    [tasks[t] EXCEPT !.pc = "running", !.calls = Append(@, Invocation(t))]

\* (mutant) a release that takes the first waiter off the queue without waking it
TasksAfterReleaseNoWake(ts, s) == ts

\* (mutant) a release that wakes the first waiter and also frees the permit
HolderAfterReleaseFree(s) == 0

\* Dropping the guard releases the one permit: tokio hands it to the first
\* queued waiter, or returns it to the semaphore when nobody waits
HolderAfterRelease(s) == IF waiters[s] = <<>> THEN 0 ELSE Head(waiters[s])
WaitersAfterRelease(s) == IF waiters[s] = <<>> THEN <<>> ELSE Tail(waiters[s])
TasksAfterRelease(ts, s) ==
    IF waiters[s] = <<>> THEN ts
    ELSE [ts EXCEPT ![Head(waiters[s])].pc = "granted"]

\* (mutant) a re-entrant lock: a future awaited by the holder's callback
\* gets the guard although the permit is taken
PollFirstReentrantLock(t) ==
    /\ tasks[t].pc = "pending"
    /\ tasks[t].op = "call"
    /\ LET s == tasks[t].h
           free == IF holder[s] = 0 THEN TRUE ELSE tasks[holder[s]].awaits = t
       IN
       IF free
       THEN /\ holder' = [holder EXCEPT ![s] = t]
            /\ tasks' = [tasks EXCEPT ![t] = Invoked(t)]
            /\ UNCHANGED waiters
       ELSE /\ waiters' = [waiters EXCEPT ![s] = Append(@, t)]
            /\ tasks' = [tasks EXCEPT ![t].pc = "waiting"]
            /\ UNCHANGED holder
    /\ UNCHANGED <<handlers, inner, dvars>>

\* First poll of the future: h.inner.lock().await. With the permit free the
\* guard is returned at once and the block goes on to call the function;
\* otherwise the future queues behind the earlier waiters.
PollFirst(t) ==
    /\ tasks[t].pc = "pending"
    /\ tasks[t].op = "call"
    /\ LET s == tasks[t].h IN
       IF holder[s] = 0
       THEN /\ holder' = [holder EXCEPT ![s] = t]
            /\ tasks' = [tasks EXCEPT ![t] = Invoked(t)]
            /\ UNCHANGED waiters
       ELSE /\ waiters' = [waiters EXCEPT ![s] = Append(@, t)]
            /\ tasks' = [tasks EXCEPT ![t].pc = "waiting"]
            /\ UNCHANGED holder
    /\ UNCHANGED <<handlers, inner, dvars>>

\* A woken future polled again: lock().await returns the guard it was handed
PollGranted(t) ==
    /\ tasks[t].pc = "granted"
    /\ tasks[t].op = "call"
    /\ holder[tasks[t].h] = t
    /\ tasks' = [tasks EXCEPT ![t] = Invoked(t)]
    /\ UNCHANGED <<handlers, inner, holder, waiters, dvars>>

\* The future's state when the callback's future completes: fut.await
\* returns, the block ends with (), and `func` goes out of scope
Returned(t) == [tasks[t] EXCEPT !.pc = "done", !.outcome = "unit"]

\* fut.await can return once the callback is not awaiting anything itself
CanReturn(t) ==
    IF tasks[t].awaits = 0 THEN TRUE ELSE tasks[tasks[t].awaits].pc = "done"
\* The callback can panic when it runs: not while it awaits an unfinished
\* future (a panic of the awaited future unwinds through it)
CanPanic(t) ==
    IF tasks[t].awaits = 0 THEN TRUE ELSE tasks[tasks[t].awaits].pc \in Finished

CallbackReturn(t) ==
    /\ tasks[t].pc = "running"
    /\ CanReturn(t)
    /\ LET s == tasks[t].h IN
       /\ tasks' = TasksAfterRelease([tasks EXCEPT ![t] = Returned(t)], s)
       /\ holder' = [holder EXCEPT ![s] = HolderAfterRelease(s)]
       /\ waiters' = [waiters EXCEPT ![s] = WaitersAfterRelease(s)]
    /\ UNCHANGED <<handlers, inner, dvars>>

\* (mutant) the block catches the panic and returns ()
PanickedCaught(t) == [tasks[t] EXCEPT !.pc = "done", !.outcome = "unit"]

\* The future's state when the callback panics inside fut.await: the block has
\* no catch_unwind, so the panic unwinds through it to whoever polled the
\* future; unwinding drops `func`
Panicked(t) == [tasks[t] EXCEPT !.pc = "failed", !.outcome = "panic"]

\* (mutant) the guard is not dropped on the way out of a panicking block
HolderAfterPanicLeaked(s) == holder[s]

\* Unwinding out of the block drops `func`, which releases the permit
HolderAfterPanic(s) == HolderAfterRelease(s)

CallbackPanic(t) ==
    /\ tasks[t].pc = "running"
    /\ CanPanic(t)
    /\ LET s == tasks[t].h IN
       /\ tasks' = TasksAfterRelease([tasks EXCEPT ![t] = Panicked(t)], s)
       /\ holder' = [holder EXCEPT ![s] = HolderAfterPanic(s)]
       /\ waiters' = [waiters EXCEPT ![s] = WaitersAfterRelease(s)]
    /\ UNCHANGED <<handlers, inner, dvars>>

\* ------------------------------------------------- drops, nested calls
\* The handler object goes out of scope: its Arc reference is released. The
\* futures made from it hold clones of the Arc (h) and are not affected.
drop_handler(i) ==
    /\ handlers[i] \in HandlerIds
    /\ handlers' = [handlers EXCEPT ![i] = Dropped]
    /\ UNCHANGED <<inner, holder, waiters, tasks, dvars>>

\* The references to an Arc: handler objects and unfinished futures
StrongCount(s) ==
    Cardinality({ i \in HandlerIds : handlers[i] = s })
      + Cardinality({ t \in TaskIds : tasks[t].h = s /\ tasks[t].pc \in Live })

WithoutTask(q, t) == SelectSeq(q, LAMBDA x : x # t)

\* (mutant) a dropped future keeps the permit it held
HolderAfterCancelLeaked(t) == holder[tasks[t].h]

\* The permit after future t is dropped: a future that holds the guard (or
\* was handed the permit) gives it to the next waiter; a future that only
\* waits, or was never polled, holds nothing
HolderAfterCancel(t) ==
    IF holder[tasks[t].h] = t THEN HolderAfterRelease(tasks[t].h)
    ELSE holder[tasks[t].h]

\* The returned future is dropped before it finished (cancellation): the
\* async block's locals (h, the Acquire or the guard, the callback's future)
\* are dropped with it
cancel(t) ==
    /\ tasks[t].pc \in Live
    /\ tasks[t].op = "call"
    /\ LET s == tasks[t].h IN
       IF holder[s] = t
       THEN /\ tasks' = TasksAfterRelease([tasks EXCEPT ![t].pc = "cancelled"], s)
            /\ holder' = [holder EXCEPT ![s] = HolderAfterCancel(t)]
            /\ waiters' = [waiters EXCEPT ![s] = WaitersAfterRelease(s)]
       ELSE /\ tasks' = [tasks EXCEPT ![t].pc = "cancelled"]
            /\ holder' = [holder EXCEPT ![s] = HolderAfterCancel(t)]
            /\ waiters' = [waiters EXCEPT ![s] = WithoutTask(@, t)]
    /\ UNCHANGED <<handlers, inner, dvars>>

\* The callback of the running future t calls handler i and awaits the
\* returned future: handler.call(c, u).await inside the callback
nested_call(t, i, c, u) ==
    /\ tasks[t].pc = "running"
    /\ tasks[t].awaits = 0
    /\ handlers[i] \in HandlerIds
    /\ u \in Payloads(inner[handlers[i]].kind)
    /\ { k \in TaskIds : tasks[k].pc = "none" } # {}
    /\ tasks' = [tasks EXCEPT ![FreeTask] = NewFuture(i, c, u),
                              ![t].awaits = FreeTask]
    /\ UNCHANGED <<handlers, inner, holder, waiters, dvars>>

\* ---------------------------------------------------------- replacement
\* Replacement of the held function through exclusive access to the slot:
\*     *h.inner.lock().await = g
\* as a future of its own, which takes the mutex like an invocation does.
NewReplacement(i, g) ==
    [pc |-> "pending", op |-> "replace", via |-> i, h |-> handlers[i],
     c |-> "none", u |-> [type |-> "none", v |-> 0], f |-> g, calls |-> <<>>,
     outcome |-> "none", awaits |-> 0]

replace(i, g) ==
    /\ handlers[i] \in HandlerIds
    /\ { t \in TaskIds : tasks[t].pc = "none" } # {}
    /\ tasks' = [tasks EXCEPT ![FreeTask] = NewReplacement(i, g)]
    /\ UNCHANGED <<handlers, inner, holder, waiters, dvars>>

\* First poll of a replacement: with the permit free it writes the slot and
\* drops the guard in the same poll; otherwise it queues
ReplacePollFirst(t) ==
    /\ tasks[t].pc = "pending"
    /\ tasks[t].op = "replace"
    /\ LET s == tasks[t].h IN
       IF holder[s] = 0
       THEN /\ inner' = [inner EXCEPT ![s].func = tasks[t].f]
            /\ tasks' = [tasks EXCEPT ![t].pc = "done", ![t].outcome = "unit"]
            /\ UNCHANGED <<holder, waiters>>
       ELSE /\ waiters' = [waiters EXCEPT ![s] = Append(@, t)]
            /\ tasks' = [tasks EXCEPT ![t].pc = "waiting"]
            /\ UNCHANGED <<holder, inner>>
    /\ UNCHANGED <<handlers, dvars>>

\* A woken replacement: it writes the slot and passes the permit on
ReplacePollGranted(t) ==
    /\ tasks[t].pc = "granted"
    /\ tasks[t].op = "replace"
    /\ holder[tasks[t].h] = t
    /\ LET s == tasks[t].h IN
       /\ inner' = [inner EXCEPT ![s].func = tasks[t].f]
       /\ tasks' = TasksAfterRelease(
                      [tasks EXCEPT ![t].pc = "done", ![t].outcome = "unit"], s)
       /\ holder' = [holder EXCEPT ![s] = HolderAfterRelease(s)]
       /\ waiters' = [waiters EXCEPT ![s] = WaitersAfterRelease(s)]
    /\ UNCHANGED <<handlers, dvars>>

\* ------------------------------------------------------------- dispatch
\* An update: each of RawUpdate's eleven Option fields, 0 for None
PopulatedSets == { P \in SUBSET FieldNames : Cardinality(P) <= MaxPopulated }
UpdateWith(P, v) == [n \in FieldNames |-> IF n \in P THEN v ELSE 0]

\* (mutant) `message` is read as present whatever the update holds
PopulatedMessageAlways(update) == { n \in FieldNames : update[n] # 0 } \cup {"message"}

\* The fields of an update that are Some
Populated(update) == { n \in FieldNames : update[n] # 0 }

\* The Context the dispatcher builds for an update-processing cycle
DispatcherContext == "ctx1"

\* Classification: the first populated field in the update's field order
Classify(update) ==
    IF Populated(update) = {} THEN "none"
    ELSE Fields[CHOOSE n \in 1..Len(Fields) :
                  /\ Fields[n] \in Populated(update)
                  /\ \A m \in 1..(n-1) : Fields[m] \notin Populated(update)]

\* The wrapper whose payload type is that of the field, if there is one
HandlerKindFor(field) ==
    CASE field = "message" -> "MessageHandler"
      [] field = "inline_query" -> "InlineQueryHandler"
      [] field = "chosen_inline_result" -> "InlineResultHandler"
      [] OTHER -> "none"

\* The handler object the dispatcher invokes for an update, 0 for none
Target(update) ==
    LET kind == HandlerKindFor(Classify(update)) IN
    IF kind \in TypedKinds THEN registry[kind] ELSE 0

\* Registration: the handler becomes the registered one of its category,
\* replacing the handler registered before
register(i) ==
    /\ handlers[i] \in HandlerIds
    /\ inner[handlers[i]].kind \in TypedKinds
    /\ registry' = [registry EXCEPT ![inner[handlers[i]].kind] = i]
    /\ UNCHANGED <<handlers, inner, holder, waiters, tasks, dispatched>>

\* One update-processing cycle: classify, then call the matching registered
\* handler with the field's payload; without one the update is dropped
dispatch(update, c) ==
    /\ { t \in TaskIds : tasks[t].pc = "none" } # {}
    /\ LET i == Target(update)
           field == Classify(update) IN
       IF i # 0
       THEN /\ call(i, c, [type |-> PayloadType(inner[handlers[i]].kind),
                           v |-> update[field]])
            /\ dispatched' = [update |-> update, field |-> field, task |-> FreeTask]
       ELSE /\ dispatched' = [update |-> update, field |-> field, task |-> 0]
            /\ UNCHANGED <<handlers, inner, holder, waiters, tasks>>
    /\ UNCHANGED registry

\* ------------------------------------------------------- specification
Next ==
    \/ \E kind \in Kinds, handler \in Funcs : new(kind, handler)
    \/ \E i \in HandlerIds : clone(i)
    \/ \E i \in HandlerIds, c \in Contexts, v \in Values :
         Call(i, c, [type |-> PayloadType(inner[handlers[i]].kind), v |-> v])
    \/ \E t \in TaskIds : PollFirst(t)
    \/ \E t \in TaskIds : PollGranted(t)
    \/ \E t \in TaskIds : CallbackReturn(t)
    \/ \E t \in TaskIds : CallbackPanic(t)

Spec == Init /\ [][Next]_vars

\* The handlers with replacement of the held function
NextReplace ==
    \/ Next
    \/ \E i \in HandlerIds, g \in Funcs : replace(i, g)
    \/ \E t \in TaskIds : ReplacePollFirst(t)
    \/ \E t \in TaskIds : ReplacePollGranted(t)

SpecReplace == Init /\ [][NextReplace]_vars

\* The handlers with handler objects and futures being dropped; the context
\* plays no part in a drop, so every call passes the same one
LifeContext == "ctx1"

NextLife ==
    \/ \E kind \in Kinds, handler \in Funcs : new(kind, handler)
    \/ \E i \in HandlerIds : clone(i)
    \/ \E i \in HandlerIds : drop_handler(i)
    \/ \E i \in HandlerIds, v \in Values :
         Call(i, LifeContext, [type |-> PayloadType(inner[handlers[i]].kind), v |-> v])
    \/ \E t \in TaskIds : PollFirst(t)
    \/ \E t \in TaskIds : PollGranted(t)
    \/ \E t \in TaskIds : CallbackReturn(t)
    \/ \E t \in TaskIds : CallbackPanic(t)
    \/ \E t \in TaskIds : cancel(t)

SpecLife == Init /\ [][NextLife]_vars

\* The handlers with callbacks that call handlers themselves
NextReentrant ==
    \/ Next
    \/ \E t \in TaskIds, i \in HandlerIds, c \in Contexts, v \in Values :
         nested_call(t, i, c, [type |-> PayloadType(inner[handlers[i]].kind), v |-> v])

SpecReentrant == Init /\ [][NextReentrant]_vars

\* The dispatcher: registration and classification of updates
NextDispatch ==
    \/ \E kind \in Kinds, handler \in Funcs : new(kind, handler)
    \/ \E i \in HandlerIds : register(i)
    \/ \E P \in PopulatedSets, v \in Values :
         dispatch(UpdateWith(P, v), DispatcherContext)

SpecDispatch == Init /\ [][NextDispatch]_vars

\* Every future is polled when it can make progress, and every callback
\* that does not panic returns
Fairness ==
    \A t \in TaskIds :
      /\ WF_vars(PollFirst(t))
      /\ WF_vars(PollGranted(t))
      /\ WF_vars(CallbackReturn(t))

FairSpec == Spec /\ Fairness

\* Futures that are not dropped are polled, and callbacks return
FairSpecLife == SpecLife /\ Fairness

\* Callbacks of the handler made first may stay suspended forever; every
\* future is still polled, and callbacks of the other handler return
FairnessOther ==
    \A t \in TaskIds :
        /\ WF_vars(PollFirst(t))
        /\ WF_vars(PollGranted(t))
        /\ WF_vars(tasks[t].h = 2 /\ CallbackReturn(t))

OtherSpec == Spec /\ FairnessOther

\* =================================================================== claims
Invocations == { t \in TaskIds : tasks[t].op = "call" }
SlotOf(t) == tasks[t].h
Started(t) == tasks[t].pc \in {"running", "done", "failed"}

\* C1: for each handler kind, a call(ctx, value) whose future is driven to
\* completion has executed the handler's function exactly once, with exactly
\* that ctx and value; no future has executed it more than once or before
\* it got the lock, and a future completes only from inside its callback.
HandlerRunsOnce ==
    /\ [](\A t \in Invocations :
           /\ Len(tasks[t].calls) <= 1
           /\ Started(t) <=> Len(tasks[t].calls) = 1
           /\ Started(t) =>
                tasks[t].calls[1] = [func |-> inner[SlotOf(t)].func,
                                     c |-> tasks[t].c, u |-> tasks[t].u])
    /\ [][\A t \in TaskIds :
            (tasks'[t].pc = "done" /\ tasks[t].pc # "done" /\ tasks'[t].op = "call")
              => (tasks[t].pc = "running" /\ tasks'[t].calls = tasks[t].calls)]_vars

\* C1 witness: two completed invocations, of a MessageHandler and of an
\* EventHandler, each having executed its function once
HandlerRunsOnceWitness ==
    \E t1, t2 \in Invocations :
      /\ tasks[t1].pc = "done" /\ tasks[t2].pc = "done"
      /\ inner[SlotOf(t1)].kind = "MessageHandler"
      /\ inner[SlotOf(t2)].kind = "EventHandler"
      /\ Len(tasks[t1].calls) = 1 /\ Len(tasks[t2].calls) = 1
      /\ tasks[t1].calls[1] = [func |-> "F", c |-> "ctx1",
                               u |-> [type |-> "Message", v |-> 1]]

\* C2: an invocation that is awaiting its callback's future does not hold
\* the handler's mutex
NoLockAcrossSuspension ==
    \A t \in Invocations : tasks[t].pc = "running" => holder[SlotOf(t)] # t

\* C3: while one invocation's callback is suspended, a second invocation of
\* the same handler that has been polled is not kept waiting for the lock
ConcurrentCallbacksProceed ==
    \A t1, t2 \in Invocations :
      (t1 # t2 /\ SlotOf(t1) = SlotOf(t2) /\ tasks[t1].pc = "running")
        => tasks[t2].pc # "waiting"

\* C7: a panic of the callback reaches the driver of the future: the future
\* ends failed with the panic as its outcome, the function was called once
\* for it and is never called again, and no future ends with an outcome
\* other than () or the callback's panic.
CallbackFailurePropagates ==
    /\ [](\A t \in TaskIds :
           /\ tasks[t].outcome \in {"none", "unit", "panic"}
           /\ tasks[t].pc = "failed" =>
                (tasks[t].outcome = "panic" /\ Len(tasks[t].calls) = 1))
    /\ [][\A t \in TaskIds :
            /\ CallbackPanic(t) => tasks'[t].pc = "failed"
            /\ tasks[t].pc = "failed" => tasks'[t] = tasks[t]]_vars

\* C7 witness: a future that failed with its callback's panic after one call
CallbackFailurePropagatesWitness ==
    \E t \in Invocations :
      /\ tasks[t].pc = "failed" /\ tasks[t].outcome = "panic"
      /\ Len(tasks[t].calls) = 1

InQueue(t, s) == \E n \in 1..Len(waiters[s]) : waiters[s][n] = t
TaskStep ==
    \E t \in TaskIds :
      PollFirst(t) \/ PollGranted(t) \/ CallbackReturn(t) \/ CallbackPanic(t)

\* C4: with every future driven fairly and every callback terminating, each
\* of the concurrent invocations of a handler eventually completes, having
\* run its callback once, and no state is reached in which an unfinished
\* invocation exists and no invocation can take a step.
AllInvocationsComplete ==
    /\ \A t \in TaskIds :
         (tasks[t].pc \in Live) ~> (tasks[t].pc \in Finished)
    /\ [](\A t \in Invocations :
           tasks[t].pc \in Finished => Len(tasks[t].calls) = 1)
    /\ []((\E t \in TaskIds : tasks[t].pc \in Live) => ENABLED TaskStep)

\* C4 witness: three invocations of one handler, polled concurrently (two
\* were queued behind the first), have all completed
AllInvocationsCompleteWitness ==
    /\ \A t \in TaskIds : tasks[t].pc = "done" /\ SlotOf(t) = SlotOf(1)
    /\ inner[SlotOf(1)].kind = "InlineQueryHandler"
    /\ tasks[1].c # tasks[2].c

\* C8: a panicking callback ends only its own invocation: the failed future
\* no longer holds or waits for the lock (the lock is free unless it was
\* passed on to a queued invocation), the panic step changes neither the
\* held function of any handler nor any other future beyond waking the next
\* waiter, and every invocation that is unfinished while a failed one
\* exists still runs its callback once and completes.
FailureIsolated ==
    /\ [](\A t \in TaskIds :
           tasks[t].pc = "failed" =>
             /\ holder[SlotOf(t)] # t
             /\ ~InQueue(t, SlotOf(t))
             /\ (\A t2 \in TaskIds :
                    SlotOf(t2) = SlotOf(t) => tasks[t2].pc \notin {"waiting", "granted", "running"})
                  => holder[SlotOf(t)] = 0)
    /\ [][\A t \in TaskIds :
            CallbackPanic(t) =>
              /\ inner' = inner /\ handlers' = handlers
              /\ \A t2 \in TaskIds \ {t} :
                    \/ tasks'[t2] = tasks[t2]
                    \/ /\ tasks[t2].pc = "waiting"
                       /\ tasks'[t2] = [tasks[t2] EXCEPT !.pc = "granted"]
                       /\ holder'[SlotOf(t2)] = t2]_vars
    /\ \A t2 \in TaskIds :
         ((\E t1 \in TaskIds : tasks[t1].pc = "failed") /\ tasks[t2].pc \in Live)
           ~> (tasks[t2].pc \in Finished /\ Len(tasks[t2].calls) = 1)

\* C8 witness: an invocation failed while another invocation of the same
\* handler was queued behind it and a third ran on another handler; both
\* others completed, and the handler's lock is free
FailureIsolatedWitness ==
    /\ tasks[1].pc = "failed" /\ tasks[2].pc = "done" /\ tasks[3].pc = "done"
    /\ SlotOf(2) = SlotOf(1) /\ SlotOf(3) # SlotOf(1)
    /\ holder[SlotOf(1)] = 0
    /\ inner[SlotOf(1)].func = tasks[2].calls[1].func

Replacements == { t \in TaskIds : tasks[t].op = "replace" }

\* C5: an invocation runs the function the slot holds when it reads it, so
\* after a replacement the next invocation runs the new function; once read,
\* the function of an invocation is never changed by a replacement; and the
\* slot's function changes only by a replacement completing, to the function
\* that replacement carries.
ReplacementTakesEffect ==
    /\ [][\A t \in TaskIds :
            (tasks[t].calls = <<>> /\ tasks'[t].calls # <<>>)
              => tasks'[t].calls = << [func |-> inner[SlotOf(t)].func,
                                       c |-> tasks[t].c, u |-> tasks[t].u] >>]_vars
    /\ [][\A t \in TaskIds :
            tasks[t].calls # <<>> => tasks'[t].calls = tasks[t].calls]_vars
    /\ [][\A s \in HandlerIds :
            (inner[s] # NoSlot /\ inner'[s] # inner[s])
              => \E r \in Replacements :
                   /\ SlotOf(r) = s
                   /\ tasks[r].pc # "done" /\ tasks'[r].pc = "done"
                   /\ inner'[s] = [inner[s] EXCEPT !.func = tasks[r].f]]_vars

\* C5 witness: on one handler, invocation 1 completed with F, then the
\* replacement 2 wrote G, then invocation 3 started and runs G
ReplacementTakesEffectWitness ==
    /\ tasks[1].op = "call" /\ tasks[1].pc = "done"
    /\ tasks[1].calls[1].func = "F"
    /\ tasks[2].op = "replace" /\ tasks[2].pc = "done" /\ tasks[2].f = "G"
    /\ tasks[3].op = "call" /\ tasks[3].pc = "running"
    /\ tasks[3].calls[1].func = "G"
    /\ SlotOf(1) = SlotOf(2) /\ SlotOf(2) = SlotOf(3)
    /\ inner[SlotOf(1)].func = "G"

\* C6: a replacement that has asked for the slot's lock is never kept
\* waiting by an invocation of that handler whose callback is suspended
ReplacementNotBlockedByCallback ==
    \A r \in Replacements, t \in Invocations :
      (SlotOf(r) = SlotOf(t) /\ tasks[r].pc = "waiting")
        => ~(tasks[t].pc = "running" /\ holder[SlotOf(t)] = t)

\* The update of the last dispatch has no / exactly one populated field
DispatchedNone ==
    dispatched # NoDispatch /\ \A n \in FieldNames : dispatched.update[n] = 0
DispatchedOnly(n) ==
    /\ dispatched # NoDispatch
    /\ dispatched.update[n] # 0
    /\ \A m \in FieldNames \ {n} : dispatched.update[m] = 0

\* C9: dispatching an update none of whose eleven fields is populated
\* invokes no handler: no future is created and no future changes.
ZeroPopulatedInvokesNothing ==
    /\ [](DispatchedNone => dispatched.task = 0)
    /\ [][(dispatched' # dispatched /\ DispatchedNone')
            => (tasks' = tasks /\ holder' = holder /\ inner' = inner)]_vars

\* C9 witness: an empty update was dispatched while a message handler, an
\* inline-query handler were registered and an earlier update had invoked one
ZeroPopulatedInvokesNothingWitness ==
    /\ DispatchedNone
    /\ registry["MessageHandler"] # 0
    /\ registry["InlineQueryHandler"] # 0
    /\ tasks[1].pc = "pending"

\* C10: dispatching an update with exactly one populated field invokes at
\* most one handler; an invoked handler is the wrapper of that field's
\* payload type (message: MessageHandler, inline_query: InlineQueryHandler,
\* chosen_inline_result: InlineResultHandler) and gets that payload type;
\* nothing is invoked exactly when no handler is registered for the field,
\* and then no future is created or changed.
OnePopulatedInvokesItsHandler ==
    /\ [](\A n \in FieldNames :
           (DispatchedOnly(n) /\ dispatched.task # 0) =>
             LET kind == inner[SlotOf(dispatched.task)].kind
                 type == tasks[dispatched.task].u.type IN
             \/ n = "message" /\ kind = "MessageHandler" /\ type = "Message"
             \/ n = "inline_query" /\ kind = "InlineQueryHandler"
                  /\ type = "InlineQuery"
             \/ n = "chosen_inline_result" /\ kind = "InlineResultHandler"
                  /\ type = "ChosenInlineResult")
    /\ [][\A n \in FieldNames :
            (dispatched' # dispatched /\ DispatchedOnly(n)') =>
              /\ \A t \in TaskIds \ {dispatched'.task} : tasks'[t] = tasks[t]
              /\ dispatched'.task # 0 =>
                    /\ tasks[dispatched'.task] = NoTask
                    /\ tasks'[dispatched'.task].pc = "pending"
                    /\ tasks'[dispatched'.task].u.v = dispatched'.update[n]
              /\ dispatched'.task = 0 <=>
                    \/ n \notin {"message", "inline_query", "chosen_inline_result"}
                    \/ n = "message" /\ registry["MessageHandler"] = 0
                    \/ n = "inline_query" /\ registry["InlineQueryHandler"] = 0
                    \/ n = "chosen_inline_result"
                         /\ registry["InlineResultHandler"] = 0]_vars

\* C10 witness: with a message handler and an inline-query handler
\* registered, an update holding only inline_query invoked the latter
OnePopulatedInvokesItsHandlerWitness ==
    /\ DispatchedOnly("inline_query")
    /\ dispatched.task # 0
    /\ registry["MessageHandler"] # 0
    /\ inner[SlotOf(dispatched.task)].kind = "InlineQueryHandler"

\* The priority order the claim C11 states, and the first populated field
\* of an update in it
ClaimedOrder ==
    <<"message", "edited_message", "channel_post", "edited_channel_post",
      "inline_query", "chosen_inline_result", "callback_query",
      "shipping_query", "pre_checkout_query", "poll", "poll_answer">>
FirstInClaimedOrder(update) ==
    ClaimedOrder[CHOOSE n \in 1..Len(ClaimedOrder) :
                   /\ update[ClaimedOrder[n]] # 0
                   /\ \A m \in 1..(n-1) : update[ClaimedOrder[m]] = 0]

\* C11: classification follows the fixed priority order message,
\* edited_message, channel_post, edited_channel_post, inline_query,
\* chosen_inline_result, callback_query, shipping_query,
\* pre_checkout_query, poll, poll_answer: an update with populated fields
\* is classified as its first populated field in that order, a dispatch
\* creates at most one future, and an invoked handler is the wrapper of
\* that first field, called with that field's payload.
FirstPopulatedWins ==
    /\ []((dispatched # NoDispatch /\ ~DispatchedNone) =>
           /\ dispatched.field = FirstInClaimedOrder(dispatched.update)
           /\ dispatched.task # 0 =>
                LET kind == inner[SlotOf(dispatched.task)].kind IN
                /\ \/ dispatched.field = "message" /\ kind = "MessageHandler"
                   \/ dispatched.field = "inline_query"
                        /\ kind = "InlineQueryHandler"
                   \/ dispatched.field = "chosen_inline_result"
                        /\ kind = "InlineResultHandler"
                /\ tasks[dispatched.task].u.v
                     = dispatched.update[FirstInClaimedOrder(dispatched.update)])
    /\ [][dispatched' # dispatched =>
            \A t \in TaskIds \ {dispatched'.task} : tasks'[t] = tasks[t]]_vars

\* C11 witness: with a message handler and an inline-query handler
\* registered, an update holding both message and inline_query invoked the
\* message handler
FirstPopulatedWinsWitness ==
    /\ dispatched # NoDispatch
    /\ dispatched.update["message"] # 0
    /\ dispatched.update["inline_query"] # 0
    /\ registry["InlineQueryHandler"] # 0
    /\ dispatched.task # 0
    /\ inner[SlotOf(dispatched.task)].kind = "MessageHandler"


\* ------------------------------------------------------------- lifetimes
Allocated == { s \in HandlerIds : inner[s] # NoSlot }
Constructed == { i \in HandlerIds : handlers[i] \in HandlerIds }
OnSlot(s) == { t \in Invocations : SlotOf(t) = s }

\* C12: construction never fails and yields a handler that holds exactly the
\* given function with its lock free and nobody queued; in every reachable
\* state afterwards, whatever its invocations are doing (pending, waiting,
\* running, failed, cancelled), the handler holds exactly one function of the
\* wrapper's kind, never none
ConstructionHoldsOneFunction ==
    /\ [](/\ \A i \in Constructed : handlers[i] \in Allocated
          /\ \A s \in Allocated : inner[s].func \in Funcs /\ inner[s].kind \in Kinds
          /\ \A t \in Invocations : SlotOf(t) \in Allocated
          /\ ({ i \in HandlerIds : handlers[i] = 0 } # {} /\ Allocated # HandlerIds) =>
                \A kind \in Kinds, handler \in Funcs : ENABLED new(kind, handler))
    /\ [][\A kind \in Kinds, handler \in Funcs :
            new(kind, handler) =>
              /\ handlers[FreeHandler] = 0
              /\ handlers'[FreeHandler] \in Allocated' \ Allocated
              /\ inner'[handlers'[FreeHandler]] = [kind |-> kind, func |-> handler]
              /\ holder'[handlers'[FreeHandler]] = 0
              /\ waiters'[handlers'[FreeHandler]] = <<>>
              /\ \A s \in Allocated : inner'[s] = inner[s]]_vars

ConstructionHoldsOneFunctionWitness ==
    \E s \in Allocated :
      /\ inner[s].func = "G"
      /\ \E t1, t2, t3 \in OnSlot(s) :
           /\ tasks[t1].pc = "cancelled"
           /\ tasks[t2].pc = "running"
           /\ tasks[t3].pc = "waiting"


\* C13: call() is lazy. The step that returns a future leaves every lock and
\* queue as it was and runs nothing; a future that was never polled has made
\* no invocation and neither holds nor waits for a lock, and only its own
\* first poll moves it. The function is read when the block gets the guard:
\* the invocation made then is of the function the slot holds at that moment.
CallIsLazy ==
    /\ [](\A t \in Invocations : tasks[t].pc = "pending" =>
            /\ tasks[t].calls = <<>>
            /\ \A s \in HandlerIds : holder[s] # t /\ ~InQueue(t, s))
    /\ [][\A t \in TaskIds :
            /\ (tasks[t].pc = "none" /\ tasks'[t].op = "call") =>
                 /\ tasks'[t].pc = "pending"
                 /\ tasks'[t].calls = <<>>
                 /\ holder' = holder /\ waiters' = waiters /\ inner' = inner
            /\ (tasks[t].op = "call" /\ tasks[t].pc = "pending" /\ tasks'[t] # tasks[t]) =>
                 tasks'[t].pc \in {"waiting", "running"}
            /\ (tasks[t].op = "call" /\ tasks[t].pc # "running" /\ tasks'[t].pc = "running") =>
                 tasks'[t].calls = <<[func |-> inner[SlotOf(t)].func,
                                      c |-> tasks[t].c, u |-> tasks[t].u]>>]_vars

\* Futures are numbered in the order they were made: the second future was
\* returned by call() while the slot held F (the first one ran F, and the only
\* replacement was requested later), and it runs G, the function the slot
\* held when it was first polled
CallIsLazyWitness ==
    /\ tasks[1].op = "call" /\ tasks[1].pc = "done" /\ tasks[1].calls[1].func = "F"
    /\ tasks[2].op = "call" /\ tasks[2].pc = "running" /\ tasks[2].calls[1].func = "G"
    /\ tasks[3].op = "replace" /\ tasks[3].pc = "done" /\ tasks[3].f = "G"
    /\ SlotOf(1) = SlotOf(2) /\ SlotOf(2) = SlotOf(3)


\* C14: separately constructed handlers are independent. Each new() makes a
\* slot of its own; a lock is held and waited for only by invocations of its
\* own slot; a step of an invocation of one handler leaves the function,
\* lock, queue and invocations of every other handler as they were; a future
\* polled while its own lock is free runs at once; and with the callbacks of
\* the first handler suspended forever, every invocation of the other
\* handler still completes.
HandlersIndependent ==
    /\ [](\A s \in HandlerIds :
            /\ holder[s] # 0 => holder[s] \in OnSlot(s)
            /\ \A n \in 1..Len(waiters[s]) : waiters[s][n] \in OnSlot(s))
    /\ [][/\ \A s \in Allocated : inner'[s] = inner[s]
          /\ \A s \in Allocated' \ Allocated :
               /\ \A i \in HandlerIds : handlers[i] # s
               /\ \A t \in TaskIds : tasks[t].h # s
          /\ \A t \in TaskIds : tasks'[t] # tasks[t] =>
               /\ \A b \in HandlerIds \ {tasks'[t].h} :
                    /\ holder'[b] = holder[b]
                    /\ waiters'[b] = waiters[b]
                    /\ \A t2 \in OnSlot(b) : tasks'[t2] = tasks[t2]
               /\ (tasks[t].pc = "pending" /\ holder[tasks[t].h] = 0) =>
                    tasks'[t].pc = "running"]_vars
    /\ \A t \in TaskIds :
          (tasks[t].op = "call" /\ tasks[t].h = 2 /\ tasks[t].pc \in Live)
            ~> (tasks[t].pc \in Finished)

HandlersIndependentWitness ==
    \E a, w, b \in Invocations :
      /\ SlotOf(a) = 1 /\ tasks[a].pc = "running"
      /\ SlotOf(w) = 1 /\ tasks[w].pc = "waiting"
      /\ SlotOf(b) = 2 /\ tasks[b].pc = "done"
      /\ inner[1].func # inner[2].func


\* ------------------------------------------------ one generic handler
\* The lock and callback state of the handlers, with the wrapper kind, the
\* function, the context and the payload left out
Pcs == [t \in TaskIds |-> tasks[t].pc]
Slots == [t \in TaskIds |-> tasks[t].h]
LockState == <<holder, waiters, Pcs, Slots>>

\* The steps of one generic handler Handler<P>, written over LockState alone
GenericIdle == LockState' = LockState
GenericCall(t) ==
    /\ Pcs[t] = "none"
    /\ Pcs' = [Pcs EXCEPT ![t] = "pending"]
    /\ Slots'[t] \in Allocated
    /\ \A t2 \in TaskIds \ {t} : Slots'[t2] = Slots[t2]
    /\ holder' = holder /\ waiters' = waiters
GenericPoll(t) ==
    /\ Pcs[t] = "pending"
    /\ Slots' = Slots
    /\ IF holder[Slots[t]] = 0
       THEN /\ holder' = [holder EXCEPT ![Slots[t]] = t]
            /\ Pcs' = [Pcs EXCEPT ![t] = "running"]
            /\ waiters' = waiters
       ELSE /\ waiters' = [waiters EXCEPT ![Slots[t]] = Append(@, t)]
            /\ Pcs' = [Pcs EXCEPT ![t] = "waiting"]
            /\ holder' = holder
GenericResume(t) ==
    /\ Pcs[t] = "granted" /\ holder[Slots[t]] = t
    /\ Pcs' = [Pcs EXCEPT ![t] = "running"]
    /\ Slots' = Slots /\ holder' = holder /\ waiters' = waiters
GenericFinish(t) ==
    /\ Pcs[t] = "running" /\ holder[Slots[t]] = t
    /\ Slots' = Slots
    /\ \E end \in Finished :
         IF waiters[Slots[t]] = <<>>
         THEN /\ Pcs' = [Pcs EXCEPT ![t] = end]
              /\ holder' = [holder EXCEPT ![Slots[t]] = 0]
              /\ waiters' = waiters
         ELSE /\ Pcs' = [Pcs EXCEPT ![t] = end,
                                    ![Head(waiters[Slots[t]])] = "granted"]
              /\ holder' = [holder EXCEPT ![Slots[t]] = Head(waiters[Slots[t]])]
              /\ waiters' = [waiters EXCEPT ![Slots[t]] = Tail(@)]
GenericStep ==
    \/ GenericIdle
    \/ \E t \in TaskIds : \/ GenericCall(t) \/ GenericPoll(t)
                          \/ GenericResume(t) \/ GenericFinish(t)

\* C15: the five wrappers are one state machine up to the payload type.
\* Every step of a handler of any of the five kinds is a step of the generic
\* handler, whose lock and callback states are determined without the kind;
\* the kind decides only the type of the payload an invocation carries; and
\* in every state each generic step is open to a handler whatever its kind.
WrappersAreOneMachine ==
    /\ [][GenericStep]_vars
    /\ [](/\ \A s \in Allocated : inner[s].kind \in Kinds
          /\ \A t \in Invocations :
               /\ tasks[t].u.type = PayloadType(inner[SlotOf(t)].kind)
               /\ tasks[t].pc = "pending" => ENABLED PollFirst(t)
               /\ tasks[t].pc = "granted" => ENABLED PollGranted(t)
               /\ tasks[t].pc = "running" =>
                    ENABLED CallbackReturn(t) /\ ENABLED CallbackPanic(t)
          /\ \A i \in Constructed :
               { t \in TaskIds : tasks[t].pc = "none" } # {} =>
                 \A c \in Contexts, v \in Values :
                   ENABLED Call(i, c, [type |-> PayloadType(inner[handlers[i]].kind),
                                       v |-> v]))
    /\ \A k1, k2 \in Kinds : PayloadType(k1) = PayloadType(k2) => k1 = k2

WrappersAreOneMachineWitness ==
    /\ inner[1].kind = "EventHandler"
    /\ inner[2].kind = "InlineResultHandler"
    /\ \E a, b, w \in Invocations :
         /\ SlotOf(a) = 1 /\ tasks[a].pc = "running"
         /\ SlotOf(b) = 2 /\ tasks[b].pc = "running"
         /\ SlotOf(w) = 2 /\ tasks[w].pc = "waiting"


\* ----------------------------------------------------------- serialization
\* The invocations of slot s that have the permit: handed the lock, or
\* holding the guard while the callback runs
InWindow(s) == { t \in OnSlot(s) : tasks[t].pc \in {"granted", "running"} }

\* C16: invocations of one handler, made through any of its clones, are
\* serialized by its mutex: at most one of them is between getting the lock
\* and the end of its callback, the lock is held exactly when there is one
\* (and by that one), and with none the lock is free.
InvocationsSerialized ==
    \A s \in HandlerIds :
      /\ Cardinality(InWindow(s)) <= 1
      /\ holder[s] # 0 <=> InWindow(s) # {}
      /\ InWindow(s) # {} => InWindow(s) = {holder[s]}
      /\ waiters[s] # <<>> => holder[s] # 0

InvocationsSerializedWitness ==
    \E t1, t2, t3 \in Invocations :
      /\ SlotOf(t1) = SlotOf(t2) /\ SlotOf(t2) = SlotOf(t3)
      /\ tasks[t1].via # tasks[t2].via
      /\ tasks[t1].pc = "cancelled"
      /\ tasks[t2].pc = "granted"
      /\ tasks[t3].pc = "waiting"


\* C17: the handler types have no operation that writes the held function.
\* After new(F) no step changes what a slot holds, so every invocation made
\* through the handler or any of its clones, in any interleaving (and
\* across panics, cancellations and dropped handler objects), runs the
\* function the handler was constructed with and no other.
HeldFunctionNeverWritten ==
    /\ [][\A s \in Allocated : inner'[s] = inner[s]]_vars
    /\ [](\A t \in Invocations :
            /\ Len(tasks[t].calls) <= 1
            /\ Started(t) => Len(tasks[t].calls) = 1
            /\ \A n \in 1..Len(tasks[t].calls) :
                 tasks[t].calls[n].func = inner[SlotOf(t)].func)

HeldFunctionNeverWrittenWitness ==
    \E t1, t2, t3 \in Invocations :
      /\ SlotOf(t1) = SlotOf(t2) /\ SlotOf(t2) = SlotOf(t3)
      /\ inner[SlotOf(t1)].func = "G"
      /\ tasks[t1].via # tasks[t2].via
      /\ tasks[t1].pc = "failed" /\ tasks[t1].calls[1].func = "G"
      /\ tasks[t2].pc = "done" /\ tasks[t2].calls[1].func = "G"
      /\ tasks[t3].pc = "running" /\ tasks[t3].calls[1].func = "G"


\* C18: clones share one slot and one lock with the original. A handler
\* object made by Clone points at the slot of an existing one; the clone
\* taken inside call() points at the slot of the handler call() was called
\* on, so invocations through different clones queue on one lock and never
\* run together; a slot that a handler object or an unfinished future still
\* refers to is alive and holds its function; and a future can be polled,
\* get the lock and finish after every handler object was dropped.
ClonesShareSlot ==
    /\ [](/\ \A t \in Invocations :
               /\ tasks[t].via \in Constructed => SlotOf(t) = handlers[tasks[t].via]
               /\ tasks[t].pc = "pending" => ENABLED PollFirst(t)
               /\ tasks[t].pc = "granted" => ENABLED PollGranted(t)
               /\ tasks[t].pc = "running" => ENABLED CallbackReturn(t)
               /\ Started(t) => tasks[t].calls[1].func = inner[SlotOf(t)].func
          /\ \A s \in HandlerIds :
               StrongCount(s) > 0 => s \in Allocated /\ inner[s].func \in Funcs
          /\ \A t1, t2 \in Invocations :
               (t1 # t2 /\ SlotOf(t1) = SlotOf(t2) /\ tasks[t1].pc = "running") =>
                  tasks[t2].pc # "running")
    /\ [][\A i \in HandlerIds :
            (handlers[i] = 0 /\ handlers'[i] \in Allocated) =>
               /\ \E j \in Constructed : handlers[j] = handlers'[i]
               /\ holder' = holder /\ waiters' = waiters /\ inner' = inner]_vars

\* Every handler object is gone; one future made through the original runs,
\* one made through the clone is queued behind it on the same lock, and a
\* third was never polled
ClonesShareSlotWitness ==
    /\ \A i \in HandlerIds : handlers[i] = Dropped
    /\ \E t1, t2, t3 \in Invocations :
         /\ SlotOf(t1) = SlotOf(t2) /\ SlotOf(t2) = SlotOf(t3)
         /\ tasks[t1].via # tasks[t2].via
         /\ tasks[t1].pc = "running"
         /\ tasks[t2].pc = "waiting"
         /\ tasks[t3].pc = "pending"


\* ----------------------------------------------------------- cancellation
Cancelled == { t \in Invocations : tasks[t].pc = "cancelled" }
\* Some future of slot s that is not finished can take a step of its own
SlotCanStep(s) ==
    \E t \in OnSlot(s) :
        \/ ENABLED PollFirst(t)
        \/ ENABLED PollGranted(t)
        \/ ENABLED CallbackReturn(t)

\* C19: dropping a returned future at any point (never polled, queued for
\* the lock, handed the lock, or inside its callback) leaves the handler
\* usable: the dropped future holds no lock and is in no queue, the step
\* that drops it changes no held function and passes a lock it held to the
\* first waiter, the handler's remaining futures are never stuck, and every
\* other invocation of the handler, pending or made later, still ends.
CancelLeavesHandlerUsable ==
    /\ [](/\ \A t \in Cancelled, s \in HandlerIds : holder[s] # t /\ ~InQueue(t, s)
          /\ \A s \in HandlerIds :
               (\E t \in OnSlot(s) : tasks[t].pc \in Live) => SlotCanStep(s)
          /\ \A i \in Constructed :
               { t \in TaskIds : tasks[t].pc = "none" } # {} =>
                 \A v \in Values :
                   ENABLED Call(i, LifeContext,
                                [type |-> PayloadType(inner[handlers[i]].kind), v |-> v]))
    /\ [][\A t \in Invocations :
            (tasks[t].pc \in Live /\ tasks'[t].pc = "cancelled") =>
               /\ inner' = inner
               /\ holder[SlotOf(t)] = t =>
                    /\ holder'[SlotOf(t)] = HolderAfterRelease(SlotOf(t))
                    /\ waiters[SlotOf(t)] # <<>> =>
                         tasks'[Head(waiters[SlotOf(t)])].pc = "granted"
               /\ holder[SlotOf(t)] # t => holder' = holder]_vars
    /\ \A t \in TaskIds :
          (tasks[t].op = "call" /\ tasks[t].pc \in Live
             /\ \E t0 \in Cancelled : SlotOf(t0) = SlotOf(t))
            ~> (tasks[t].pc \in Ended)

\* One future was dropped inside its callback, one before it got the lock,
\* and a future made after both has run to completion
CancelLeavesHandlerUsableWitness ==
    /\ tasks[1].op = "call" /\ tasks[1].pc = "cancelled" /\ tasks[1].calls # <<>>
    /\ tasks[2].op = "call" /\ tasks[2].pc = "cancelled" /\ tasks[2].calls = <<>>
    /\ tasks[3].op = "call" /\ tasks[3].pc = "done"
    /\ SlotOf(1) = SlotOf(2) /\ SlotOf(2) = SlotOf(3)


\* ------------------------------------------------------------ re-entrance
\* The callback of the running invocation t awaits invocation k of the same
\* handler (made through the same object or a clone)
Reentrant(t, k) ==
    /\ tasks[t].op = "call" /\ tasks[t].pc = "running"
    /\ tasks[t].awaits = k
    /\ tasks[k].h = tasks[t].h

\* C20: re-entrant invocation deadlocks. While a callback awaits an
\* invocation of its own handler, the outer invocation holds the lock and
\* can neither return nor fail, the nested one never gets past waiting for
\* that lock, the situation never ends, and no other invocation of the
\* handler starts or completes from then on.
ReentrantCallDeadlocks ==
    /\ [](\A t, k \in TaskIds : Reentrant(t, k) =>
            /\ holder[SlotOf(t)] = t
            /\ tasks[k].pc \in {"pending", "waiting"}
            /\ ~ENABLED CallbackReturn(t)
            /\ ~ENABLED CallbackPanic(t)
            /\ ~ENABLED PollGranted(k))
    /\ [][\A t, k \in TaskIds : Reentrant(t, k) =>
            /\ Reentrant(t, k)'
            /\ tasks[k].pc = "waiting" => tasks'[k].pc = "waiting"
            /\ \A t3 \in TaskIds :
                 (tasks'[t3].h = tasks[t].h /\ tasks'[t3].pc # tasks[t3].pc) =>
                    tasks'[t3].pc \in {"pending", "waiting"}]_vars

\* The outer invocation runs, the nested one, made through a clone, waits
\* for the lock, and a later invocation waits behind it
ReentrantCallDeadlocksWitness ==
    \E t, k, t3 \in TaskIds :
      /\ Reentrant(t, k)
      /\ tasks[k].via # tasks[t].via
      /\ tasks[k].pc = "waiting"
      /\ t3 > k /\ tasks[t3].h = tasks[t].h /\ tasks[t3].pc = "waiting"
      /\ waiters[SlotOf(t)] = <<k, t3>>

====
